---- MODULE Spec2Model ----
(***************************************************************************)
(* A model of the multichan one-to-many stream (package multichan): the    *)
(* writer W with its items/offset/closed/readerpos fields, the readers R   *)
(* with their private pos, the condition variable, the mutex, and the      *)
(* goroutine that Read starts to observe its context; and the              *)
(* implementation of the same package that gives each reader a Go channel  *)
(* (multichan.go).                                                         *)
(***************************************************************************)
EXTENDS Integers, Sequences, FiniteSets, TLC

\* Bounds of the model.
MaxReaders == 2
MaxWrites == 2

\* The zero value passed to New (New(0) in the tests).
Zero == 0

\* readerpos entry of a disposed-of reader.
Disposed == -1

\* The value "foo" that TestTypecheck writes to a multichan of int. The ints
\* of the model are the ints of the program; Foo stands for the string.
Foo == -2

\* The ids of the readers: W.Reader gives out 0, 1, 2, ... At most
\* MaxReaders readers are made, and one more once a reader has been disposed of.
RIds == 0 .. MaxReaders

VARIABLES
    items,      \* W.items: items written and waiting to be read
    offset,     \* W.offset: position in the stream of items[0]
    closed,     \* W.closed
    readerpos,  \* W.readerpos: each reader's position; Disposed for a disposed-of reader
    pos,        \* R.pos of each reader
    mu,         \* W.mu: the set of readers holding the mutex (empty: unlocked)
    pc,         \* where each reader's goroutine is
    ctx,        \* the context of each reader's current Read: "nil", "live" or "cancelled"
    obs,        \* the goroutine Read starts to watch ctx.Done(): "none", "select", "lock"
                \* (at its select; past case <-ctx.Done(), before r.w.mu.Lock())
    fault,      \* the panic a reader's goroutine died of, or "none"
    res,        \* what each reader's last call returned, if it was a Read or NBRead,
                \* and (history) whether the stream was closed when it returned
    hist,       \* history: every item ever appended, in write order
    got,        \* history: the items each reader has received with ok = true
    start,      \* history: W.offset when the reader was created
    drained,    \* history: the reader, not disposed of, has been at end-of-stream while closed
    wfault,     \* the panic a call of W.Write ended with, or "none"
    skipped,    \* history: the reader's last Read returned (zero, false) with an item at its cursor
    released,   \* history: a reader that alone lagged behind the others has been disposed of
    \* the implementation with one Go channel per reader (multichan.go)
    chans,      \* W.chans: "ch" (the channel made for that reader) or "nil", by reader id
    chclosed,   \* whether the channel made for each reader has been closed
    senders,    \* the goroutines started by Write that have not sent yet: the
                \* iteration that started it, the channel it sends on (the number
                \* of the reader it was made for, from 1; 0 for a nil channel),
                \* and the item
    cpc,        \* each reader: "none" (not made), "idle", "disposed"
    cgot,       \* history: the items each reader's Read and NBRead returned with ok = true
    cres,       \* what each reader's last Read or NBRead returned
    cpanic,     \* the panic that ended the program, or "none"
    chist,      \* history: the items written, in write order
    cstart      \* history: how many items had been written when the reader was made

\* the variables of the implementation with the condition variable
mvars == <<items, offset, closed, readerpos, pos, mu, pc, ctx, obs, fault, res,
           hist, got, start, drained, wfault, skipped, released>>

\* the variables of the implementation with channels
cvars == <<chans, chclosed, senders, cpc, cgot, cres, cpanic, chist, cstart>>

vars == <<mvars, cvars>>

\* res of a reader whose call has not returned
NoResult == [val |-> Zero, ok |-> FALSE, ret |-> FALSE, closed |-> FALSE]

\* ------------------------------------------------------------------------
\* W's helpers

\* w.streamlen()
streamlen(its, off) == off + Len(its)

\* w.item(pos): the index expression of w.items[pos-w.offset]
itemIndex(p, off) == p - off

InRange(p, its, off) == itemIndex(p, off) >= 0 /\ itemIndex(p, off) < Len(its)

item(p, its, off) == its[itemIndex(p, off) + 1]

\* a minimum that counts the entries of disposed-of readers too
RECURSIVE trimMinOfAll(_, _)
trimMinOfAll(m, rp) ==
    IF rp = <<>> THEN m
    ELSE LET p == Head(rp)
         IN  trimMinOfAll(IF p < m THEN p ELSE m, Tail(rp))

\* the minimum computed by trim's loop over readerpos
RECURSIVE trimMin(_, _)
trimMin(m, rp) ==
    IF rp = <<>> THEN m
    ELSE LET p == Head(rp)
         IN  trimMin(IF p >= 0 /\ p < m THEN p ELSE m, Tail(rp))

RECURSIVE trimMaxLoop(_, _)
trimMaxLoop(m, rp) ==
    IF rp = <<>> THEN m
    ELSE LET p == Head(rp)
         IN  trimMaxLoop(IF p >= 0 /\ p > m THEN p ELSE m, Tail(rp))

\* a trim that keeps what the fastest reader needs
trimToFastest(its, off, rp) ==
    LET min == IF \E i \in 1 .. Len(rp) : rp[i] >= 0
               THEN trimMaxLoop(0, rp) ELSE streamlen(its, off)
        delta == min - off
    IN  IF delta > 0 /\ delta <= Len(its)
        THEN [items |-> SubSeq(its, delta + 1, Len(its)), offset |-> off + delta]
        ELSE [items |-> its, offset |-> off]

\* w.trim(): the items and offset it leaves
trim(its, off, rp) ==
    LET min == trimMin(streamlen(its, off), rp)
        delta == min - off
    IN  IF delta > 0
        THEN [items |-> SubSeq(its, delta + 1, Len(its)), offset |-> off + delta]
        ELSE [items |-> its, offset |-> off]

\* a cond.Signal() in place of the Broadcast: one waiting goroutine is woken
signalOne(p) ==
    [r \in RIds |-> IF p[r] = "waiting" /\ \A q \in RIds : p[q] = "waiting" => r <= q
                    THEN "lock" ELSE p[r]]

\* cond.Broadcast(): every goroutine in cond.Wait goes on to reacquire the mutex
Broadcast(p) == [r \in RIds |-> IF p[r] = "waiting" THEN "lock" ELSE p[r]]

Active(p, r) == p[r] \notin {"none", "disposed"}

\* the history variable drained, after any step
DrainedNext ==
    drained' = [r \in RIds |->
                  /\ Active(pc', r)
                  /\ drained[r] \/ (closed' /\ pos'[r] >= streamlen(items', offset'))]

\* ------------------------------------------------------------------------
Init ==
    /\ items = <<>>
    /\ offset = 0
    /\ closed = FALSE
    /\ readerpos = <<>>
    /\ pos = [r \in RIds |-> 0]
    /\ mu = {}
    /\ pc = [r \in RIds |-> "none"]
    /\ ctx = [r \in RIds |-> "nil"]
    /\ obs = [r \in RIds |-> "none"]
    /\ fault = [r \in RIds |-> "none"]
    /\ res = [r \in RIds |-> NoResult]
    /\ hist = <<>>
    /\ got = [r \in RIds |-> <<>>]
    /\ start = [r \in RIds |-> 0]
    /\ drained = [r \in RIds |-> FALSE]
    /\ wfault = "none"
    /\ skipped = [r \in RIds |-> FALSE]
    /\ released = FALSE
    /\ chans = <<>>
    /\ chclosed = <<>>
    /\ senders = {}
    /\ cpc = [r \in RIds |-> "none"]
    /\ cstart = [r \in RIds |-> 0]
    /\ cgot = [r \in RIds |-> <<>>]
    /\ cres = [r \in RIds |-> NoResult]
    /\ cpanic = "none"
    /\ chist = <<>>

\* ------------------------------------------------------------------------
\* The producer's operations (each runs with w.mu held from Lock to Unlock)

\* reflect.TypeOf(item)
TypeOf(it) == IF it = Foo THEN "string" ELSE "int"

\* w.zerotype, set by New(0)
zerotype == TypeOf(Zero)

\* a type check that lets every item through
assignableAlways(t, u) == TRUE

\* t.AssignableTo(u), for the types int and string
AssignableTo(t, u) == t = u

\* the panic of Write, raised before w.mu is locked
writePanic ==
    /\ wfault' = "type"
    /\ UNCHANGED <<items, offset, closed, readerpos, pos, mu, pc, ctx, obs, fault, res,
                   hist, got, start, drained, skipped, released>>
    /\ UNCHANGED cvars

\* W.Write(item)
Write(it) ==
    IF ~AssignableTo(TypeOf(it), zerotype)
    THEN writePanic
    ELSE /\ mu = {}
         /\ Len(hist) < MaxWrites
         /\ LET t == trim(Append(items, it), offset, readerpos)
            IN  /\ items' = t.items
                /\ offset' = t.offset
         /\ pc' = Broadcast(pc)
         /\ hist' = Append(hist, it)
         /\ UNCHANGED <<closed, readerpos, pos, mu, ctx, obs, fault, res, got, start>>
         /\ DrainedNext
         /\ UNCHANGED <<wfault, skipped, released, cvars>>

\* W.Close()
Close ==
    /\ mu = {}
    /\ closed' = TRUE
    /\ pc' = Broadcast(pc)
    /\ UNCHANGED <<items, offset, readerpos, pos, mu, ctx, obs, fault, res, hist, got, start>>
    /\ DrainedNext
    /\ UNCHANGED <<wfault, skipped, released, cvars>>

\* the pos of an R that starts at the end of the stream
newReaderPosAtEnd(its, off) == streamlen(its, off)

\* the pos of an R that starts at position 0, as its readerpos entry does
newReaderPosAtZero(its, off) == 0

\* the pos W.Reader gives the new R
newReaderPos(its, off) == off

\* a readerpos entry that puts the new reader at the end of the stream
newReaderEntryAtEnd(its, off) == streamlen(its, off)

\* the entry W.Reader appends to w.readerpos: append(w.readerpos, 0)
newReaderEntry(its, off) == 0

\* W.Reader()
readerCalled ==
    /\ mu = {}
    /\ LET id == Len(readerpos)
       IN  /\ readerpos' = Append(readerpos, newReaderEntry(items, offset))
           /\ pos' = [pos EXCEPT ![id] = newReaderPos(items, offset)]
           /\ pc' = [pc EXCEPT ![id] = "idle"]
           /\ start' = [start EXCEPT ![id] = offset]
    /\ UNCHANGED <<items, offset, closed, mu, ctx, obs, fault, res, hist, got>>
    /\ DrainedNext
    /\ UNCHANGED <<wfault, skipped, released, cvars>>

\* W.Reader(), for the first MaxReaders readers
Reader ==
    /\ Len(readerpos) < MaxReaders
    /\ readerCalled

\* W.Reader(), called once more after a reader has been disposed of
ReaderAfterDispose ==
    /\ Len(readerpos) = MaxReaders
    /\ \E i \in 1 .. Len(readerpos) : readerpos[i] = Disposed
    /\ readerCalled

\* ------------------------------------------------------------------------
\* A reader's operations

\* ctx.Err() != nil for a context c
ctxErr(c) == c = "cancelled"

\* the loop condition of Read reaches its call ctx.Err() with a nil ctx
nilDeref(r, c) ==
    pos[r] >= streamlen(items, offset) /\ ~closed /\ c = "nil"

\* a loop condition of Read that any reader's cancelled context ends
readWaitsUnlessAnyCancelled(r, c) ==
    /\ pos[r] >= streamlen(items, offset) /\ ~closed /\ ~ctxErr(c)
    /\ \A q \in RIds : ~ctxErr(ctx[q])

\* the loop condition of Read:
\* r.pos >= r.w.streamlen() && !r.w.closed && ctx.Err() == nil
readWaits(r, c) ==
    pos[r] >= streamlen(items, offset) /\ ~closed /\ ~ctxErr(c)

\* a Read that reports the end of the stream as soon as the stream is closed
readFailsWhenClosed(r, c) ==
    \/ c # "nil" /\ ctxErr(c)
    \/ pos[r] >= streamlen(items, offset)
    \/ closed

\* a Read that gives up only at the end of the stream
readFailsAtEndOnly(r, c) == pos[r] >= streamlen(items, offset)

\* the test after Read's loop: (ctx != nil && ctx.Err() != nil) || r.pos >= r.w.streamlen()
readFails(r, c) ==
    \/ c # "nil" /\ ctxErr(c)
    \/ pos[r] >= streamlen(items, offset)

\* the test of NBRead: r.pos >= r.w.streamlen()
nbReadFails(r) == pos[r] >= streamlen(items, offset)

\* a doRead that leaves r.pos where it was
samePos(p) == p

\* a doRead that steps over an item
skipPos(p) == p + 2

\* r.pos++ in doRead
nextPos(p) == p + 1

\* R.doRead(), with w.mu held: the item is returned and
\* appended to what r has received; an index out of range is a panic with the
\* deferred Unlock run.
doRead(r) ==
    IF InRange(pos[r], items, offset)
    THEN LET result == item(pos[r], items, offset)
             p == nextPos(pos[r])
             rp == [readerpos EXCEPT ![r + 1] = p]
             t == trim(items, offset, rp)
         IN  /\ pos' = [pos EXCEPT ![r] = p]
             /\ readerpos' = rp
             /\ items' = t.items
             /\ offset' = t.offset
             /\ res' = [res EXCEPT ![r] = [val |-> result, ok |-> TRUE, ret |-> TRUE,
                                           closed |-> closed]]
             /\ got' = [got EXCEPT ![r] = Append(@, result)]
             /\ pc' = [pc EXCEPT ![r] = "idle"]
             /\ fault' = fault
    ELSE /\ pc' = [pc EXCEPT ![r] = "fault"]
         /\ fault' = [fault EXCEPT ![r] = "index"]
         /\ UNCHANGED <<pos, readerpos, items, offset, res, got>>

\* the return of (r.w.zero, false)
returnZero(r) ==
    /\ res' = [res EXCEPT ![r] = [val |-> Zero, ok |-> FALSE, ret |-> TRUE,
                                  closed |-> closed]]
    /\ pc' = [pc EXCEPT ![r] = "idle"]
    /\ UNCHANGED <<pos, readerpos, items, offset, got, fault>>

\* What becomes of the observer when Read returns and the deferred close(done)
\* runs: at its select it takes case <-done and ends, or (the context being
\* cancelled by then or later, both cases ready) case <-ctx.Done(); past the
\* select it still has its Lock and Broadcast to do.
obsAtReturn(o) ==
    IF o = "select" THEN {"none", "lock"} ELSE {o}

\* Read from the point where it holds w.mu (after Lock, or after cond.Wait has
\* reacquired it), for a Read whose context is c and whose observer is o: the
\* loop condition, then either the call of cond.Wait or the rest of Read with
\* the deferred Unlock and close(done). With a nil ctx the call ctx.Err() in
\* the loop condition is a nil dereference: the goroutine panics and the
\* deferred Unlock releases w.mu.
readLocked(r, c, o) ==
    IF nilDeref(r, c)
    THEN /\ pc' = [pc EXCEPT ![r] = "fault"]
         /\ fault' = [fault EXCEPT ![r] = "nilctx"]
         /\ mu' = {}
         /\ obs' = [obs EXCEPT ![r] = o]
         /\ ctx' = [ctx EXCEPT ![r] = c]
         /\ res' = [res EXCEPT ![r] = NoResult]
         /\ skipped' = [skipped EXCEPT ![r] = FALSE]
         /\ UNCHANGED <<pos, readerpos, items, offset, got>>
    ELSE IF readWaits(r, c)
    THEN /\ pc' = [pc EXCEPT ![r] = "wait"]
         /\ mu' = {r}
         /\ obs' = [obs EXCEPT ![r] = o]
         /\ ctx' = [ctx EXCEPT ![r] = c]
         /\ res' = [res EXCEPT ![r] = NoResult]
         /\ skipped' = [skipped EXCEPT ![r] = FALSE]
         /\ UNCHANGED <<pos, readerpos, items, offset, got, fault>>
    ELSE /\ IF readFails(r, c) THEN returnZero(r) ELSE doRead(r)
         /\ skipped' = [skipped EXCEPT ![r] =
                           readFails(r, c) /\ pos[r] < streamlen(items, offset)]
         /\ mu' = {}
         /\ ctx' = [ctx EXCEPT ![r] = "nil"]
         /\ \E oo \in obsAtReturn(o) : obs' = [obs EXCEPT ![r] = oo]

\* R.Read(ctx) is called: with a non-nil ctx it starts the goroutine that
\* selects on ctx.Done() and done; then r.w.mu.Lock() and the body.
\* c = "cancelled" is a context cancelled before Read takes the lock.
readCalled(r, c) ==
    /\ obs[r] = "none"
    /\ mu = {}
    /\ readLocked(r, c, IF c = "nil" THEN "none" ELSE "select")
    /\ UNCHANGED <<closed, hist, start>>
    /\ DrainedNext
    /\ UNCHANGED <<wfault, released, cvars>>

\* R.Read(ctx), called on a reader that has not been disposed of
ReadStart(r, c) ==
    /\ pc[r] = "idle"
    /\ readCalled(r, c)

\* r.w.cond.Wait(): r joins the waiters and releases w.mu in one step
ReadWait(r) ==
    /\ pc[r] = "wait"
    /\ mu = {r}
    /\ pc' = [pc EXCEPT ![r] = "waiting"]
    /\ mu' = {}
    /\ UNCHANGED <<items, offset, closed, readerpos, pos, ctx, obs, fault, res, hist, got, start>>
    /\ DrainedNext
    /\ UNCHANGED <<wfault, skipped, released, cvars>>

\* cond.Wait returns: a Broadcast has woken r, r reacquires w.mu and goes
\* round the loop
ReadWake(r) ==
    /\ pc[r] = "lock"
    /\ mu = {}
    /\ readLocked(r, ctx[r], obs[r])
    /\ UNCHANGED <<closed, hist, start>>
    /\ DrainedNext
    /\ UNCHANGED <<wfault, released, cvars>>

\* R.NBRead()
nbReadCalled(r) ==
    /\ mu = {}
    /\ IF nbReadFails(r) THEN returnZero(r) ELSE doRead(r)
    /\ skipped' = [skipped EXCEPT ![r] = FALSE]
    /\ UNCHANGED <<closed, mu, ctx, obs, hist, start>>
    /\ DrainedNext
    /\ UNCHANGED <<wfault, released, cvars>>

\* R.NBRead(), called on a reader that has not been disposed of
NBRead(r) ==
    /\ pc[r] = "idle"
    /\ nbReadCalled(r)

\* r's readerpos entry is live and below the entry of every other live
\* reader, and there is another live reader
LoneLaggard(r) ==
    /\ readerpos[r + 1] >= 0
    /\ \E i \in 1 .. Len(readerpos) : i # r + 1 /\ readerpos[i] >= 0
    /\ \A i \in 1 .. Len(readerpos) :
          (i # r + 1 /\ readerpos[i] >= 0) => readerpos[r + 1] < readerpos[i]

\* R.Dispose()
disposeCalled(r) ==
    /\ mu = {}
    /\ LET rp == [readerpos EXCEPT ![r + 1] = Disposed]
           t == trim(items, offset, rp)
       IN  /\ readerpos' = rp
           /\ items' = t.items
           /\ offset' = t.offset
    /\ pc' = [pc EXCEPT ![r] = "disposed"]
    /\ res' = [res EXCEPT ![r] = NoResult]
    /\ skipped' = [skipped EXCEPT ![r] = FALSE]
    /\ released' = (released \/ LoneLaggard(r))
    /\ UNCHANGED <<closed, pos, mu, ctx, obs, fault, hist, got, start>>
    /\ DrainedNext
    /\ UNCHANGED <<wfault, cvars>>

\* R.Dispose(), called on a reader that has not been disposed of
Dispose(r) ==
    /\ pc[r] = "idle"
    /\ disposeCalled(r)

\* The methods of R called on a reader after its Dispose ("It is an error to
\* make further method calls on r after Dispose"): the same code runs, and
\* nothing in R or W tells it that r has been disposed of but readerpos[r.id].
ReadAfterDispose(r, c) ==
    /\ pc[r] = "disposed"
    /\ readCalled(r, c)

NBReadAfterDispose(r) ==
    /\ pc[r] = "disposed"
    /\ nbReadCalled(r)

DisposeAfterDispose(r) ==
    /\ pc[r] = "disposed"
    /\ disposeCalled(r)

\* ------------------------------------------------------------------------
\* The context of a Read and the goroutine that observes it

Reading(r) == pc[r] \in {"wait", "waiting", "lock"}

\* the caller's cancel function (or deadline) of the context given to r's
\* Read fires while the Read is in progress
Cancel(r) ==
    /\ Reading(r)
    /\ ctx[r] = "live"
    /\ ctx' = [ctx EXCEPT ![r] = "cancelled"]
    /\ UNCHANGED <<items, offset, closed, readerpos, pos, mu, pc, obs, fault, res,
                   hist, got, start>>
    /\ DrainedNext
    /\ UNCHANGED <<wfault, skipped, released, cvars>>

\* case <-ctx.Done(): the observer goes on to r.w.mu.Lock()
ObsCtxDone(r) ==
    /\ obs[r] = "select"
    /\ ctxErr(ctx[r])
    /\ obs' = [obs EXCEPT ![r] = "lock"]
    /\ UNCHANGED <<items, offset, closed, readerpos, pos, mu, pc, ctx, fault, res,
                   hist, got, start>>
    /\ DrainedNext
    /\ UNCHANGED <<wfault, skipped, released, cvars>>

\* a Broadcast made without taking w.mu
obsLockedNever == TRUE

\* r.w.mu.Lock() of the observer succeeds
obsLocked == mu = {}

\* the observer's r.w.mu.Lock(); r.w.cond.Broadcast(); r.w.mu.Unlock()
ObsBroadcast(r) ==
    /\ obs[r] = "lock"
    /\ obsLocked
    /\ pc' = Broadcast(pc)
    /\ obs' = [obs EXCEPT ![r] = "none"]
    /\ UNCHANGED <<items, offset, closed, readerpos, pos, mu, ctx, fault, res,
                   hist, got, start>>
    /\ DrainedNext
    /\ UNCHANGED <<wfault, skipped, released, cvars>>

\* ------------------------------------------------------------------------
\* The implementation with one unbuffered channel per reader (multichan.go)

\* The channels a goroutine started by iteration i of Write's loop can find in
\* ch when it runs ch <- item. The closure captures the loop variable ch: with
\* one variable per loop the goroutine races with the later iterations and
\* finds the channel of its own iteration or of a later one (nil, here 0, for
\* a reader closed or disposed of); with one variable per iteration it finds
\* its own.
sendTargets(i) ==
    {IF chans[k] = "ch" THEN k ELSE 0 : k \in i .. Len(chans)}

\* W.Write(item): one goroutine is started for each reader whose entry of
\* w.chans is not nil
ChWrite(it) ==
    /\ cpanic = "none"
    /\ IF ~AssignableTo(TypeOf(it), zerotype)
       THEN /\ wfault' = "type"
            /\ UNCHANGED <<items, offset, closed, readerpos, pos, mu, pc, ctx, obs, fault,
                           res, hist, got, start, drained, skipped, released>>
            /\ UNCHANGED cvars
       ELSE /\ Len(chist) < MaxWrites
            /\ LET live == {i \in 1 .. Len(chans) : chans[i] = "ch"}
               IN  \E to \in [live -> 0 .. Len(chans)] :
                      /\ \A i \in live : to[i] \in sendTargets(i)
                      /\ senders' = senders \cup
                            {[from |-> i, to |-> to[i], item |-> it] : i \in live}
            /\ chist' = Append(chist, it)
            /\ UNCHANGED <<chans, chclosed, cpc, cgot, cres, cpanic, cstart>>
            /\ UNCHANGED mvars

\* W.Close(): each channel still in w.chans is closed and its entry set to nil
ChClose ==
    /\ cpanic = "none"
    /\ chclosed' = [i \in 1 .. Len(chans) |-> chclosed[i] \/ chans[i] = "ch"]
    /\ chans' = [i \in 1 .. Len(chans) |-> "nil"]
    /\ UNCHANGED <<senders, cpc, cgot, cres, cpanic, chist, cstart>>
    /\ UNCHANGED mvars

\* W.Reader()
ChReader ==
    /\ cpanic = "none"
    /\ Len(chans) < MaxReaders
    /\ LET id == Len(chans)
       IN  /\ chans' = Append(chans, "ch")
           /\ chclosed' = Append(chclosed, FALSE)
           /\ cpc' = [cpc EXCEPT ![id] = "idle"]
           /\ cstart' = [cstart EXCEPT ![id] = Len(chist)]
    /\ UNCHANGED <<senders, cgot, cres, cpanic, chist>>
    /\ UNCHANGED mvars

\* the receive item, ok := <-r.C completes with the item of a goroutine that
\* is sending on r's channel
chReceive(r, s) ==
    /\ s.to = r + 1
    /\ senders' = senders \ {s}
    /\ cgot' = [cgot EXCEPT ![r] = Append(@, s.item)]
    /\ cres' = [cres EXCEPT ![r] = [val |-> s.item, ok |-> TRUE, ret |-> TRUE,
                                    closed |-> FALSE]]

\* the return of (r.zero, false)
chReturnZero(r) ==
    /\ cres' = [cres EXCEPT ![r] = [val |-> Zero, ok |-> FALSE, ret |-> TRUE,
                                    closed |-> chclosed[r + 1]]]
    /\ UNCHANGED <<senders, cgot>>

\* R.Read(): it returns once its channel is closed or a goroutine is sending
\* on it, and blocks until then
ChRead(r) ==
    /\ cpanic = "none"
    /\ cpc[r] = "idle"
    /\ IF chclosed[r + 1]
       THEN chReturnZero(r)
       ELSE \E s \in senders : chReceive(r, s)
    /\ UNCHANGED <<chans, chclosed, cpc, cpanic, chist, cstart>>
    /\ UNCHANGED mvars

\* R.NBRead(): the select takes the receive if the channel is closed or a
\* goroutine is already blocked sending on it, and the default case otherwise
ChNBRead(r) ==
    /\ cpanic = "none"
    /\ cpc[r] = "idle"
    /\ IF chclosed[r + 1]
       THEN chReturnZero(r)
       ELSE \/ \E s \in senders : chReceive(r, s)
            \/ chReturnZero(r)
    /\ UNCHANGED <<chans, chclosed, cpc, cpanic, chist, cstart>>
    /\ UNCHANGED mvars

\* R.Dispose()
ChDispose(r) ==
    /\ cpanic = "none"
    /\ cpc[r] = "idle"
    /\ chans' = [chans EXCEPT ![r + 1] = "nil"]
    /\ cpc' = [cpc EXCEPT ![r] = "disposed"]
    /\ UNCHANGED <<chclosed, senders, cgot, cres, cpanic, chist, cstart>>
    /\ UNCHANGED mvars

\* ch <- item in a goroutine started by Write, on a channel that Close has
\* closed: the send panics, and a panic in a goroutine ends the program
SendPanic(s) ==
    /\ cpanic = "none"
    /\ s.to # 0
    /\ chclosed[s.to]
    /\ cpanic' = "send on closed channel"
    /\ senders' = senders \ {s}
    /\ UNCHANGED <<chans, chclosed, cpc, cgot, cres, chist, cstart>>
    /\ UNCHANGED mvars

ChNewItems == {Len(chist) + 1}

ChanNext ==
    \/ \E it \in ChNewItems : ChWrite(it)
    \/ ChClose
    \/ ChReader
    \/ \E r \in RIds : ChRead(r)
    \/ \E r \in RIds : ChNBRead(r)
    \/ \E r \in RIds : ChDispose(r)
    \/ \E s \in senders : SendPanic(s)

ChanSpec == Init /\ [][ChanNext]_vars

\* ------------------------------------------------------------------------
\* Items are opaque to the code: each Write carries the number of its position
\* in the stream, as the tests do (Write(1), Write(2), Write(3)).
NewItems == {Len(hist) + 1}

Next ==
    \/ \E it \in NewItems : Write(it)
    \/ Close
    \/ Reader
    \/ \E r \in RIds, c \in {"nil", "live", "cancelled"} : ReadStart(r, c)
    \/ \E r \in RIds : ReadWait(r)
    \/ \E r \in RIds : ReadWake(r)
    \/ \E r \in RIds : NBRead(r)
    \/ \E r \in RIds : Dispose(r)
    \/ \E r \in RIds : Cancel(r)
    \/ \E r \in RIds : ObsCtxDone(r)
    \/ \E r \in RIds : ObsBroadcast(r)

Spec == Init /\ [][Next]_vars

\* The goroutines are scheduled fairly, and sync.Mutex does not starve a
\* goroutine in Lock (its starvation mode hands the mutex over in FIFO order):
\* a reader about to call cond.Wait calls it, a woken reader and an observer
\* past its select get the mutex, and the observer's select is taken once
\* ctx.Done() is closed.
Fairness ==
    \A r \in RIds :
        /\ WF_vars(ReadWait(r))
        /\ SF_vars(ReadWake(r))
        /\ WF_vars(ObsCtxDone(r))
        /\ SF_vars(ObsBroadcast(r))

FairSpec == Spec /\ Fairness

\* A producer that also makes the call of TestTypecheck, w.Write("foo").
BadItems == {Foo}

TypecheckNext ==
    \/ Next
    \/ \E it \in BadItems : Write(it)

TypecheckSpec == Init /\ [][TypecheckNext]_vars

\* Callers that also call the methods of a reader after its Dispose.
MisuseNext ==
    \/ Next
    \/ \E r \in RIds, c \in {"nil", "live", "cancelled"} : ReadAfterDispose(r, c)
    \/ \E r \in RIds : NBReadAfterDispose(r)
    \/ \E r \in RIds : DisposeAfterDispose(r)

MisuseSpec == Init /\ [][MisuseNext]_vars

\* Callers that make one more reader after disposing of one.
DetachNext ==
    \/ Next
    \/ ReaderAfterDispose

DetachSpec == Init /\ [][DetachNext]_vars

\* ------------------------------------------------------------------------
\* Vocabulary of the properties

Ctxs == {"nil", "live", "cancelled"}

\* a step of R.Read made by r with w.mu held
ReadStep(r) == ReadWake(r) \/ \E c \in Ctxs : ReadStart(r, c)

\* a step in which r's Read or NBRead, its context not cancelled, returns
UntriggeredReturn(r) ==
    /\ pc'[r] = "idle"
    /\ \/ pc[r] = "lock" /\ ctx[r] # "cancelled" /\ ReadWake(r)
       \/ pc[r] = "idle" /\ NBRead(r)
       \/ pc[r] = "idle" /\ \E c \in {"nil", "live"} : ReadStart(r, c)

\* the results (zero, false) and (v, true) of a call that returned with the
\* stream closed (cl) or open
ZeroFalse(cl) == [val |-> Zero, ok |-> FALSE, ret |-> TRUE, closed |-> cl]
Ok(v, cl) == [val |-> v, ok |-> TRUE, ret |-> TRUE, closed |-> cl]

\* the item written at global position p (no item: the value Disposed, which
\* is not an item)
WrittenIn(h, p) == IF p \in 0 .. (Len(h) - 1) THEN h[p + 1] ELSE Disposed
Written(p) == WrittenIn(hist, p)

\* the items written at positions a .. b-1 of history h, in order
Run(h, a, b) == [i \in 1 .. (b - a) |-> WrittenIn(h, a + i - 1)]

\* C1: what a reader has received is, at every moment, the run of written
\* items from the position it started at up to its cursor, in write order; a
\* step moves its cursor by at most one item; and a reader that started at
\* position 0 and is given (zero, false) on the closed stream by NBRead or by
\* a Read whose context is not cancelled has then received all that was written.
OrderPreserved ==
    [][\A r \in RIds :
          /\ got'[r] = Run(hist', start'[r], pos'[r])
          /\ pc[r] # "none" => pos'[r] \in {pos[r], pos[r] + 1}
          /\ (closed /\ start[r] = 0 /\ res'[r] = ZeroFalse(TRUE) /\ UntriggeredReturn(r))
                => got'[r] = hist']_vars

\* C1 witness: a reader attached before the first Write has read 1, 2 and
\* then (zero, false) on the closed stream.
OrderPreservedWitness ==
    \E r \in RIds :
        /\ start[r] = 0 /\ closed /\ pc[r] = "idle"
        /\ hist = <<1, 2>> /\ got[r] = <<1, 2>> /\ res[r] = ZeroFalse(TRUE)

\* C2: whatever the other readers do, every item from a live reader's cursor
\* to the end of the stream stays in the buffer at its place, no reader dies
\* of an index out of range, and a reader that started at 0 and has reached
\* the end of the closed stream has received exactly what was written.
FanOut ==
    \A r \in RIds :
        /\ fault[r] # "index"
        /\ pc[r] \notin {"none", "disposed"} =>
              /\ streamlen(items, offset) = Len(hist)
              /\ \A p \in pos[r] .. (Len(hist) - 1) :
                    InRange(p, items, offset) /\ item(p, items, offset) = Written(p)
              /\ (start[r] = 0 /\ closed /\ pos[r] >= streamlen(items, offset))
                    => got[r] = hist

\* C2 witness: two readers attached before any Write have both received 1, 2
\* and then (zero, false) after Close.
FanOutWitness ==
    /\ Len(readerpos) >= 2 /\ closed /\ hist = <<1, 2>>
    /\ \A r \in {0, 1} :
          start[r] = 0 /\ got[r] = <<1, 2>> /\ res[r] = ZeroFalse(TRUE) /\ pc[r] = "idle"

\* C3 (as claimed): once a reader has been at the end of the closed stream,
\* each of its later Reads and NBReads returns (zero, false).
DrainedReadsEndOfStream ==
    [][\A r \in RIds :
          (drained[r] /\ pc'[r] = "idle" /\ (NBRead(r) \/ ReadStep(r)))
             => res'[r] = ZeroFalse(TRUE)]_vars

\* C4: on a closed stream, a Read whose context is not cancelled, or an
\* NBRead, by a reader with an unread item returns that item (the one written
\* at its cursor) with ok = true and moves the cursor past it.
CloseKeepsUnread ==
    [][\A r \in RIds :
          (closed /\ pos[r] < Len(hist) /\ pc[r] \in {"idle", "lock"}
              /\ UntriggeredReturn(r))
             => /\ res'[r] = Ok(Written(pos[r]), TRUE)
                /\ pos'[r] = pos[r] + 1
                /\ got'[r] = Append(got[r], Written(pos[r]))]_vars

\* C4 witness: a reader that had read nothing when Close was called (it has
\* never been at the end of the closed stream) made its first call with the
\* stream closed and was given 1; the second item is still unread and still
\* in the buffer.
CloseKeepsUnreadWitness ==
    \E r \in RIds :
        /\ closed /\ hist = <<1, 2>> /\ start[r] = 0 /\ ~drained[r]
        /\ got[r] = <<1>> /\ res[r] = Ok(1, TRUE) /\ items = <<2>>

\* C5 (as claimed): closed never goes back to false, and while closed the end
\* of the sequence, offset + len(items), does not change.
ClosedIsFinal ==
    [][closed => (closed' /\ streamlen(items', offset') = streamlen(items, offset))]_vars

\* C6: the first item a reader receives is the one written at the position
\* that was the stream's offset when the reader was created, and it never
\* receives an item from below that position.
StartsAtBase ==
    \A r \in RIds :
        /\ Len(got[r]) >= 1 => got[r][1] = Written(start[r])
        /\ \A i \in 1 .. Len(got[r]) :
              \E p \in start[r] .. (Len(hist) - 1) : got[r][i] = Written(p)

\* C6 witness: Write(1) with no reader, Reader, Write(2), and the reader's
\* read returned 2.
StartsAtBaseWitness ==
    \E r \in RIds :
        start[r] = 1 /\ hist = <<1, 2>> /\ got[r] = <<2>> /\ res[r] = Ok(2, FALSE)

\* C7: a reader waiting in cond.Wait whose context is cancelled gets out of
\* Read with (zero, false).
CancelledReadReturns ==
    \A r \in RIds :
        (pc[r] = "waiting" /\ ctx[r] = "cancelled")
           ~> (pc[r] = "idle" /\ res[r] \in {ZeroFalse(TRUE), ZeroFalse(FALSE)})

\* C7 witness: no Write and no Close has happened; a Read that waited on the
\* empty open stream has had its context cancelled, its observer has made its
\* Broadcast, and the Read, woken, is about to take the mutex and return.
CancelledReadReturnsWitness ==
    \E r \in RIds :
        /\ pc[r] = "lock" /\ ctx[r] = "cancelled" /\ obs[r] = "none"
        /\ ~closed /\ hist = <<>>

\* C8: a blocked Read returns (zero, false) only when its own context is
\* cancelled or the stream is closed, and otherwise returns the item written
\* at its cursor; the cancellation of a context, its observer's steps and the
\* return of the cancelled Read change neither the stream nor any reader's
\* cursor or received items.
CancelIsLocal ==
    [][\A r \in RIds :
          /\ (pc[r] = "lock" /\ pc'[r] = "idle" /\ ctx[r] # "cancelled" /\ ~closed
                /\ ReadWake(r))
                => res'[r] = Ok(Written(pos[r]), FALSE)
          /\ (pc[r] = "lock" /\ pc'[r] = "idle" /\ ~res'[r].ok /\ ReadWake(r))
                => (ctx[r] = "cancelled" \/ closed)
          /\ (\/ ctx[r] = "live" /\ Cancel(r)
              \/ obs[r] = "select" /\ ObsCtxDone(r)
              \/ obs[r] = "lock" /\ ObsBroadcast(r)
              \/ pc[r] = "lock" /\ ctx[r] = "cancelled" /\ ReadWake(r))
                => /\ UNCHANGED <<items, offset, closed, readerpos, pos, got, hist>>
                   /\ \A q \in RIds \ {r} :
                         /\ res'[q] = res[q]
                         /\ pc'[q] \in {pc[q], "lock"}
                         /\ pc'[q] = "lock" => pc[q] \in {"waiting", "lock"}]_vars

\* C8 witness: nothing written, nothing closed; two readers waited in Read;
\* the context of r was cancelled and its observer has made its Broadcast,
\* which woke both: r is about to return, and q, its own context live, is
\* about to test its loop condition again.
CancelIsLocalWitness ==
    \E r, q \in RIds :
        /\ r # q /\ ~closed /\ hist = <<>>
        /\ pc[r] = "lock" /\ ctx[r] = "cancelled" /\ obs[r] = "none"
        /\ pc[q] = "lock" /\ ctx[q] = "live" /\ obs[q] = "select"

\* C9 (as claimed): a Read with a nil context, called when the cursor is at
\* the end of the open stream, goes to wait on the condition and does not
\* fault.
NilCtxReadWaits ==
    [][\A r \in RIds :
          (ReadStart(r, "nil") /\ pos[r] >= streamlen(items, offset) /\ ~closed)
             => (pc'[r] = "wait" /\ fault'[r] = "none")]_vars

\* C10: NBRead returns in the step that takes the mutex; with no unread item
\* it returns (zero, false), stream open or closed, and changes nothing else;
\* with one it returns the item written at its cursor, moves its cursor by one
\* and touches no other reader.
NBReadOnce ==
    [][\A r \in RIds :
          (pc[r] = "idle" /\ NBRead(r)) =>
             /\ pc'[r] = "idle"
             /\ IF pos[r] >= Len(hist)
                THEN /\ res'[r] = ZeroFalse(closed)
                     /\ UNCHANGED <<items, offset, closed, readerpos, pos, got, hist, mu>>
                ELSE /\ res'[r] = Ok(Written(pos[r]), closed)
                     /\ pos' = [pos EXCEPT ![r] = pos[r] + 1]
                     /\ got' = [got EXCEPT ![r] = Append(got[r], Written(pos[r]))]]_vars

\* C10 witness: NBRead on the empty open stream returned (zero, false); after
\* Write(1) it returned (1, true); and then (zero, false) again.
NBReadOnceWitness ==
    \E r \in RIds :
        /\ ~closed /\ hist = <<1>> /\ got[r] = <<1>> /\ pos[r] = 1
        /\ res[r] = ZeroFalse(FALSE) /\ pc[r] = "idle" /\ ctx[r] = "nil" /\ obs[r] = "none"

\* C12: a Write of an item that is not assignable to the type of the zero
\* value panics and changes nothing: items, offset, closed, readerpos and
\* every reader's cursor, state and result stay as they were, and the
\* rejected item is never in the buffer, in what was written or in what a
\* reader has received.
BadWritePanics ==
    [][/\ \A it \in BadItems :
             Write(it) => /\ wfault' = "type"
                          /\ UNCHANGED <<items, offset, closed, readerpos, pos, mu, pc,
                                         res, hist, got>>
       /\ \A it \in BadItems :
             /\ \A i \in 1 .. Len(items') : items'[i] # it
             /\ \A r \in RIds : \A i \in 1 .. Len(got'[r]) : got'[r][i] # it]_vars

\* C12 witness: an item has been written, a reader has read it, and a
\* Write("foo") has panicked.
BadWritePanicsWitness ==
    \E r \in RIds :
        /\ wfault = "type" /\ hist = <<1>> /\ pc[r] = "idle"
        /\ got[r] = <<1>> /\ res[r] = Ok(1, FALSE)

\* C11 (as claimed): a Read, NBRead or Dispose called on a reader that has
\* been disposed of ends in a panic; it returns no item, leaves the reader's
\* cursor where it was, and leaves its readerpos entry at -1.
UseAfterDisposeFaults ==
    [][\A r \in RIds :
          (/\ pc[r] = "disposed"
           /\ \/ NBReadAfterDispose(r)
              \/ DisposeAfterDispose(r)
              \/ \E c \in Ctxs : ReadAfterDispose(r, c))
             => /\ fault'[r] # "none"
                /\ pos'[r] = pos[r]
                /\ got'[r] = got[r]
                /\ readerpos'[r + 1] = Disposed]_vars

\* the readerpos entries of the readers that have not been disposed of
ActiveEntries == {readerpos[i] : i \in {j \in 1 .. Len(readerpos) : readerpos[j] >= 0}}

\* the least element of a non-empty set of numbers
MinOf(S) == CHOOSE m \in S : \A n \in S : m <= n

\* C13: every position that is still in the buffer is at or after the
\* readerpos entry of some reader that has not been disposed of, so the
\* buffer holds no more than the items from the least such entry to the end
\* of the stream, and with no such reader the buffer is empty.
RetainedOnlyWhileNeeded ==
    /\ \A p \in offset .. (streamlen(items, offset) - 1) :
          \E e \in ActiveEntries : e <= p
    /\ ActiveEntries # {} =>
          Len(items) <= streamlen(items, offset) - MinOf(ActiveEntries)
    /\ ActiveEntries = {} => items = <<>>

\* C13 witness: two readers, Write(1), Write(2); the second reader has read
\* 1 and the first, which had read nothing, has been disposed of: item 1 is
\* gone from the buffer and item 2, which the second reader has yet to read,
\* is kept.
RetainedOnlyWhileNeededWitness ==
    /\ readerpos = <<Disposed, 1>> /\ hist = <<1, 2>>
    /\ items = <<2>> /\ offset = 1 /\ pos[1] = 1 /\ got[1] = <<1>>

\* C14 (as claimed): offset is at most the readerpos entry of every reader
\* that has not been disposed of, and at most the end of the stream.
BaseBelowCursors ==
    /\ \A e \in ActiveEntries : offset <= e
    /\ offset <= streamlen(items, offset)

\* the minimum of the end of the stream and the live readerpos entries
MinNeeded(its, off, rp) ==
    MinOf({streamlen(its, off)} \cup
          {rp[i] : i \in {j \in 1 .. Len(rp) : rp[j] >= 0}})

\* C15 (as claimed): when the one reader that lags behind the others is
\* disposed of, and after every later Write or Dispose, offset is the minimum
\* of the end of the stream and the live readerpos entries, and the buffer
\* holds the items from that position on and nothing below it.
DetachReleases ==
    [][(/\ released'
        /\ \/ \E r \in RIds : pc[r] = "idle" /\ Dispose(r)
           \/ \E it \in NewItems : Write(it))
          => /\ offset' = MinNeeded(items', offset', readerpos')
             /\ items' = Run(hist', offset', Len(hist'))]_vars

\* C16: no reader is left in cond.Wait once an item is at its cursor or the
\* stream is closed (Write and Close wake every waiter before they unlock);
\* a reader inside Read in such a state gets out of Read; and a woken Read
\* whose context is not cancelled returns the item written at its cursor if
\* there is one, and (zero, false) if the stream is closed and it has read
\* everything.
NoMissedWakeups ==
    /\ [](\A r \in RIds :
             pc[r] = "waiting" => (pos[r] >= streamlen(items, offset) /\ ~closed))
    /\ \A r \in RIds :
          (Reading(r) /\ (pos[r] < streamlen(items, offset) \/ closed))
             ~> (pc[r] = "idle" /\ res[r].ret)
    /\ [][\A r \in RIds :
             (pc[r] = "lock" /\ pc'[r] = "idle" /\ ctx[r] # "cancelled" /\ ReadWake(r))
                => IF pos[r] < Len(hist)
                   THEN res'[r] = Ok(Written(pos[r]), closed)
                   ELSE res'[r] = ZeroFalse(TRUE)]_vars

\* C16 witness: a reader waited in Read on the empty open stream, its context
\* live; Write(1) has woken it and it is about to take the mutex again, the
\* item at its cursor.
NoMissedWakeupsWitness ==
    \E r \in RIds :
        /\ pc[r] = "lock" /\ ctx[r] = "live" /\ obs[r] = "select"
        /\ ~closed /\ hist = <<1>> /\ pos[r] = 0 /\ items = <<1>>

\* C17: in every step that begins and ends with a reader attached that has
\* not yet received an item, whoever takes the step (a Write, another
\* reader's read or Dispose, a Close), offset stays where it is and every
\* buffered item stays in the buffer at its place.
NewReaderPins ==
    [][\A r \in RIds :
          (/\ Active(pc, r) /\ got[r] = <<>>
           /\ Active(pc', r) /\ got'[r] = <<>>)
             => /\ offset' = offset
                /\ Len(items') >= Len(items)
                /\ SubSeq(items', 1, Len(items)) = items]_vars

\* C17 witness: the first reader has read both items written; the second
\* reader is attached and has read nothing, and both items are still in the
\* buffer with offset 0.
NewReaderPinsWitness ==
    /\ readerpos = <<2, 0>> /\ hist = <<1, 2>> /\ got[0] = <<1, 2>>
    /\ pc[1] = "idle" /\ got[1] = <<>> /\ items = <<1, 2>> /\ offset = 0

\* a step in which r's Read returns with its context cancelled
TriggeredReturn(r) ==
    /\ pc'[r] = "idle"
    /\ \/ pc[r] = "lock" /\ ctx[r] = "cancelled" /\ ReadWake(r)
       \/ pc[r] = "idle" /\ ReadStart(r, "cancelled")

\* C18: a Read that returns with its context cancelled returns (zero, false)
\* and leaves the reader's cursor, the readerpos entries, offset, the buffer
\* and what the reader has received as they were, also with an item at its
\* cursor; and the next call whose context is not cancelled, made by a reader
\* with an item at its cursor, returns the item written at that position.
CancelConsumesNothing ==
    [][\A r \in RIds :
          /\ (pc[r] \in {"idle", "lock"} /\ TriggeredReturn(r))
                => /\ res'[r] = ZeroFalse(closed)
                   /\ UNCHANGED <<pos, readerpos, offset, items, got, hist, closed>>
          /\ (skipped[r] /\ pc[r] \in {"idle", "lock"} /\ UntriggeredReturn(r))
                => /\ res'[r] = Ok(Written(pos[r]), closed)
                   /\ pos'[r] = pos[r] + 1
          /\ skipped'[r] => /\ res'[r] \in {ZeroFalse(TRUE), ZeroFalse(FALSE)}
                             /\ pos'[r] < Len(hist')]_vars

\* C18 witness: Write(1) was made with a reader attached; the reader's Read,
\* its context cancelled, has returned (zero, false) with item 1 at its
\* cursor, and the item is still in the buffer, unread.
CancelConsumesNothingWitness ==
    \E r \in RIds :
        /\ skipped[r] /\ pc[r] = "idle" /\ res[r] = ZeroFalse(FALSE)
        /\ hist = <<1>> /\ items = <<1>> /\ pos[r] = 0 /\ got[r] = <<>>

\* C20: for every reader that is attached, offset <= r.pos <= the end of
\* the stream; offset never goes down; and each time doRead runs, the index
\* pos - offset is within items and the item it returns is the one written
\* at position pos.
IndexInRange ==
    /\ [](\A r \in RIds :
             Active(pc, r) => /\ offset <= pos[r]
                              /\ pos[r] <= streamlen(items, offset))
    /\ [][/\ offset' >= offset
          /\ \A r \in RIds :
                /\ fault'[r] # "index"
                /\ (Active(pc, r) /\ pos'[r] # pos[r])
                      => /\ 0 <= itemIndex(pos[r], offset)
                         /\ itemIndex(pos[r], offset) < Len(items)
                         /\ item(pos[r], items, offset) = Written(pos[r])
                         /\ res'[r] = Ok(Written(pos[r]), closed)]_vars

\* C20 witness: the sequence of TestTrim. Write(1) with no reader moved
\* offset to 1; the reader made then started at 1, and after Write(2) its
\* doRead indexed items[1 - 1] and returned 2.
IndexInRangeWitness ==
    \E r \in RIds :
        /\ start[r] = 1 /\ pos[r] = 2 /\ readerpos[r + 1] = 2
        /\ hist = <<1, 2>> /\ offset = 2 /\ items = <<>> /\ res[r] = Ok(2, FALSE)

\* the item written at position p of the channel implementation's history
\* (no item: the value Disposed, which is not an item)
ChWritten(p) == IF p \in 0 .. (Len(chist) - 1) THEN chist[p + 1] ELSE Disposed

\* C19 (as claimed): in the implementation with channels no send panics,
\* and a reader made before the first Write has, at every moment, received
\* the first items written, in write order, and has received all of them
\* when its Read returns (zero, false) on the closed channel.
ChanOrderPreserved ==
    /\ cpanic = "none"
    /\ \A r \in RIds :
          (cpc[r] # "none" /\ cstart[r] = 0) =>
             /\ Len(cgot[r]) <= Len(chist)
             /\ \A i \in 1 .. Len(cgot[r]) : cgot[r][i] = ChWritten(i - 1)
             /\ cres[r] = ZeroFalse(TRUE) => cgot[r] = chist

====
